---- MODULE Spec2Model ----
(***************************************************************************)
(* loan_clearance_schedule of src/app.py (lines 10-49): the level payment  *)
(* of a loan, and the month-by-month balance when the rent above the       *)
(* payment is paid into the loan as well.                                  *)
(*                                                                         *)
(* Arithmetic.  The function computes in Python floats, and the month in   *)
(* which a loan clears, a payment that equals the first month's interest   *)
(* and a denominator that is exactly zero are all decided by the rounding  *)
(* of single operations.  A float is therefore modelled as what it is: a   *)
(* sign, a significand below 2^53 and a binary exponent, and every         *)
(* operation of the source (product, quotient, sum, difference, power,     *)
(* comparison, max, round) gives the float nearest to the exact result,    *)
(* ties to even, with the subnormals, the infinities and the NaN of IEEE   *)
(* 754 binary64, and with the exceptions Python raises in their place.     *)
(* Significands and their exact products do not fit the integers of TLC    *)
(* and are kept as sequences of 15-bit limbs.  The one operation that is   *)
(* not defined to the last bit is the power, which Python hands to the C   *)
(* library: its result is the float below or the float above the exact     *)
(* power, and FPow is the set of both, from which the call chooses.        *)
(*                                                                         *)
(* Inputs.  property_value, interest_rate and rental_roi are floats,       *)
(* down_payment_pct and tenure_years ints, as the form of lines 201-206    *)
(* supplies them.                                                          *)
(***************************************************************************)
EXTENDS Integers, Sequences, FiniteSets, TLC

VARIABLES
    property_value,           \* parameter (float)
    down_payment_pct,         \* parameter (int)
    interest_rate,            \* parameter (float), percent per year
    tenure_years,             \* parameter (int)
    rental_roi,               \* parameter (float), percent per year
    loan_amount,              \* line 12
    monthly_interest_rate,    \* line 13
    emi,                      \* line 16
    annual_rental_income,     \* line 17
    monthly_rent,             \* line 18
    outstanding,              \* lines 20, 30-34
    month,                    \* lines 21, 26
    total_interest,           \* lines 22, 28
    schedule,                 \* lines 23, 37-41
    pc,                       \* "setup", "while", "return" or "done"
    outcome,                  \* "running", "returned" or the exception raised
    result                    \* the tuple returned by line 49, << >> before

vars == <<property_value, down_payment_pct, interest_rate, tenure_years, rental_roi,
          loan_amount, monthly_interest_rate, emi, annual_rental_income, monthly_rent,
          outstanding, month, total_interest, schedule, pc, outcome, result>>

\* ---------------------------------------------------------------------------
\* Natural numbers of any size, as sequences of 15-bit limbs, least
\* significant limb first, without leading zero limbs (zero is << >>).  They
\* carry the 53-bit significands of Python's floats and their exact products,
\* sums and quotients.
LimbBits == 15

Base == 32768

\* Pow2[k + 1] = 2^k for k in 0..15
Pow2 == <<1, 2, 4, 8, 16, 32, 64, 128, 256, 512, 1024, 2048, 4096, 8192, 16384, 32768>>

Limb(a, i) == IF 1 <= i /\ i <= Len(a) THEN a[i] ELSE 0

\* the index of the highest non-zero limb of a, 0 when there is none
TopLimb(a) ==
    IF \A i \in 1..Len(a) : a[i] = 0 THEN 0
    ELSE CHOOSE i \in 1..Len(a) : a[i] # 0 /\ \A j \in (i + 1)..Len(a) : a[j] = 0

\* a without its leading zero limbs
BNorm(a) == SubSeq(a, 1, TopLimb(a))

\* the carry into limb i of a + b
BCarry(a, b, i) ==
    \E j \in 1..(i - 1) :
        /\ Limb(a, j) + Limb(b, j) >= Base
        /\ \A k \in (j + 1)..(i - 1) : Limb(a, k) + Limb(b, k) = Base - 1

LenMax(a, b) == IF Len(a) >= Len(b) THEN Len(a) ELSE Len(b)

\* a + b (a and b may have leading zero limbs)
BAdd(a, b) ==
    BNorm([i \in 1..(LenMax(a, b) + 1) |->
              (Limb(a, i) + Limb(b, i) + (IF BCarry(a, b, i) THEN 1 ELSE 0)) % Base])

\* the borrow from limb i of a - b
BBorrow(a, b, i) ==
    \E j \in 1..(i - 1) :
        /\ Limb(a, j) < Limb(b, j)
        /\ \A k \in (j + 1)..(i - 1) : Limb(a, k) = Limb(b, k)

\* a - b for a >= b
BSub(a, b) ==
    BNorm([i \in 1..Len(a) |->
              (a[i] - Limb(b, i) - (IF BBorrow(a, b, i) THEN 1 ELSE 0) + Base) % Base])

\* -1, 0 or 1 as a < b, a = b or a > b
BCmpAt(a, b, t) == IF a[t] < b[t] THEN -1 ELSE 1

BCmp(a, b) ==
    IF Len(a) # Len(b) THEN (IF Len(a) < Len(b) THEN -1 ELSE 1)
    ELSE IF a = b THEN 0
    ELSE BCmpAt(a, b, CHOOSE i \in 1..Len(a) :
                          a[i] # b[i] /\ \A j \in (i + 1)..Len(a) : a[j] = b[j])

\* a * k for 0 <= k <= Base
BMulSmall(a, k) ==
    BAdd([i \in 1..Len(a) |-> (a[i] * k) % Base],
         [i \in 1..(Len(a) + 1) |-> (Limb(a, i - 1) * k) \div Base])

\* the sum over i..Len(a) of the parts of the limb products a[i] * b[..]
\* that fall into limb j of a * b
RECURSIVE BColumn(_, _, _, _)
BColumn(a, b, j, i) ==
    IF i > Len(a) THEN 0
    ELSE ((a[i] * Limb(b, j - i + 1)) % Base) + ((a[i] * Limb(b, j - i)) \div Base)
           + BColumn(a, b, j, i + 1)

\* a * b from the column sums col of the limb products
BMulColumns(col) ==
    BAdd([j \in 1..Len(col) |-> col[j] % Base],
         [j \in 1..(Len(col) + 1) |-> Limb(col, j - 1) \div Base])

\* a * b
BMul(a, b) == BMulColumns([j \in 1..(Len(a) + Len(b)) |-> BColumn(a, b, j, 1)])

\* a * 2^(LimbBits * q + r) for 0 <= r < LimbBits
BShlBy(a, q, r) ==
    BNorm([i \in 1..(Len(a) + q + 1) |->
              (Limb(a, i - q) % Pow2[LimbBits - r + 1]) * Pow2[r + 1]
                  + (Limb(a, i - q - 1) \div Pow2[LimbBits - r + 1])])

\* a * 2^n
BShl(a, n) == BShlBy(a, n \div LimbBits, n % LimbBits)

\* a \div 2^(LimbBits * q + r) for 0 <= r < LimbBits
BShrBy(a, q, r) ==
    IF q >= Len(a) THEN << >>
    ELSE BNorm([i \in 1..(Len(a) - q) |->
                   (a[q + i] \div Pow2[r + 1])
                       + (Limb(a, q + i + 1) % Pow2[r + 1]) * Pow2[LimbBits - r + 1]])

\* a \div 2^n
BShr(a, n) == BShrBy(a, n \div LimbBits, n % LimbBits)

\* a % 2^n = 0
BLowBitsZero(a, n) ==
    /\ \A i \in 1..(n \div LimbBits) : Limb(a, i) = 0
    /\ Limb(a, (n \div LimbBits) + 1) % Pow2[(n % LimbBits) + 1] = 0

\* bit j of a (bit 0 is the lowest)
BBit(a, j) == (Limb(a, (j \div LimbBits) + 1) \div Pow2[(j % LimbBits) + 1]) % 2

\* the number of bits of a limb x > 0
LimbBitLen(x) == CHOOSE k \in 1..LimbBits : Pow2[k] <= x /\ x < Pow2[k + 1]

BBitLen(a) == IF Len(a) = 0 THEN 0 ELSE LimbBits * (Len(a) - 1) + LimbBitLen(a[Len(a)])

Smaller(a, b) == IF a <= b THEN a ELSE b

Larger(a, b) == IF a >= b THEN a ELSE b

\* One step of long division by d, whose top limb is at least Base / 2:
\* the next limb x of the dividend is brought down to the remainder st.r,
\* and the quotient limb q0, estimated from the two top limbs of the
\* remainder, is at most 2 too large (t0 = d * q0).
BDivPick(st, rem, d, q0, t0) ==
    IF BCmp(t0, rem) <= 0
    THEN [q |-> <<q0>> \o st.q, r |-> BSub(rem, t0)]
    ELSE IF BCmp(BSub(t0, d), rem) <= 0
    THEN [q |-> <<q0 - 1>> \o st.q, r |-> BSub(rem, BSub(t0, d))]
    ELSE [q |-> <<q0 - 2>> \o st.q, r |-> BSub(rem, BSub(BSub(t0, d), d))]

BDivTry(st, rem, d, q0) == BDivPick(st, rem, d, q0, BMulSmall(d, q0))

BDivRem(st, rem, d) ==
    BDivTry(st, rem, d,
            Smaller(Base - 1,
                    (Limb(rem, Len(d) + 1) * Base + Limb(rem, Len(d))) \div d[Len(d)]))

BDivDigit(st, x, d) == BDivRem(st, BNorm(<<x>> \o st.r), d)

RECURSIVE BDivFrom(_, _, _, _)
BDivFrom(st, a, d, i) ==
    IF i = 0 \/ Len(st.r) < 0 THEN st
    ELSE BDivFrom(BDivDigit(st, a[i], d), a, d, i - 1)

BDivLimbs(a, d) == BDivFrom([q |-> << >>, r |-> << >>], a, d, Len(a))

BDivResult(st) == [q |-> BNorm(st.q), r |-> st.r]

\* [q |-> a \div d, r |-> 0 iff d divides a] for d > 0 with top limb of
\* sh bits less than a full limb
BDivShifted(a, d, sh) == BDivResult(BDivLimbs(BShl(a, sh), BShl(d, sh)))

\* [q |-> a \div d, r |-> 0 iff d divides a] for d > 0
BDivMod(a, d) == BDivShifted(a, d, LimbBits - LimbBitLen(d[Len(d)]))

\* n as limbs, for an int n >= 0
BFromNat(n) == BNorm(<<n % Base, (n \div Base) % Base, n \div (Base * Base)>>)

\* q = a \div 2^sh rounded to round(a / 2^sh), ties to even; sticky says
\* that the exact value lies strictly above a (by less than one unit of a).
BRoundUp(q, a, sh, sticky) ==
    IF /\ BBit(a, sh - 1) = 1
       /\ (sticky \/ ~BLowBitsZero(a, sh - 1) \/ Limb(q, 1) % 2 = 1)
    THEN BAdd(q, <<1>>)
    ELSE q

\* round(a / 2^sh) for sh >= 1
BRoundShr(a, sh, sticky) == BRoundUp(BShr(a, sh), a, sh, sticky)

\* ---------------------------------------------------------------------------
\* Python floats (IEEE 754 binary64).  A finite float is
\* (-1)^s * m * 2^e with m < 2^53 and e >= MinExp, m >= 2^52 unless
\* e = MinExp (subnormal); zero has m = << >> and e = 0.
MantBits == 53

MinExp == -1074

MaxBits == 1024

Zero(s) == [k |-> "fin", s |-> s, m |-> << >>, e |-> 0]

Inf(s) == [k |-> "inf", s |-> s, m |-> << >>, e |-> 0]

NaN == [k |-> "nan", s |-> 0, m |-> << >>, e |-> 0]

\* the float (-1)^s * m * 2^e for m < 2^53, or the infinity it overflows to
Pack(s, m, e) ==
    IF Len(m) = 0 THEN Zero(s)
    ELSE IF BBitLen(m) + e > MaxBits THEN Inf(s)
    ELSE [k |-> "fin", s |-> s, m |-> m, e |-> e]

\* q * 2^e for q <= 2^53 (rounding up may have carried into bit 53)
RoundCarry(s, q, e) ==
    IF BBitLen(q) > MantBits THEN Pack(s, BShr(q, 1), e + 1) ELSE Pack(s, q, e)

\* M with its lowest sh bits rounded away (appended when sh <= 0)
RoundShift(s, M, E, sticky, sh) ==
    RoundCarry(s, IF sh <= 0 THEN BShl(M, -sh) ELSE BRoundShr(M, sh, sticky), E + sh)

\* The float nearest to (-1)^s * (M + f) * 2^E, ties to even, where f = 0,
\* or 0 < f < 1 when sticky.
Round(s, M, E, sticky) ==
    IF Len(M) = 0 /\ ~sticky THEN Zero(s)
    ELSE RoundShift(s, M, E, sticky, Larger(BBitLen(M) - MantBits, MinExp - E))

RoundQuotRem(s, qr, E) == Round(s, qr.q, E, Len(qr.r) # 0)

\* N scaled by 2^k so that the quotient has at least 56 bits
RoundQuotScaled(s, N, D, E, k) == RoundQuotRem(s, BDivMod(BShl(N, k), D), E - k)

\* The float nearest to (-1)^s * (N / D) * 2^E, for D > 0
RoundQuot(s, N, D, E) ==
    IF Len(N) = 0 THEN Zero(s)
    ELSE RoundQuotScaled(s, N, D, E, Larger(0, MantBits + 3 + BBitLen(D) - BBitLen(N)))

Abs(x) == IF x < 0 THEN -x ELSE x

\* float(n) for an int n
FromInt(n) == Round(IF n < 0 THEN 1 ELSE 0, BFromNat(Abs(n)), 0, FALSE)

\* n / d for ints n and d # 0 (Python's true division), which is also the
\* float that the decimal literal n/d denotes when d is a power of ten
FromRatio(n, d) ==
    RoundQuot(IF (n < 0) # (d < 0) THEN 1 ELSE 0, BFromNat(Abs(n)), BFromNat(Abs(d)), 0)

IsZero(x) == x.k = "fin" /\ Len(x.m) = 0

IsPos(x) == x.k # "nan" /\ x.s = 0 /\ ~IsZero(x)

IsNeg(x) == x.k # "nan" /\ x.s = 1 /\ ~IsZero(x)

FNeg(x) == [x EXCEPT !.s = 1 - x.s]

\* x * y
FMul(x, y) ==
    IF x.k = "nan" \/ y.k = "nan" THEN NaN
    ELSE IF x.k = "inf" \/ y.k = "inf"
         THEN (IF IsZero(x) \/ IsZero(y) THEN NaN ELSE Inf((x.s + y.s) % 2))
    ELSE Round((x.s + y.s) % 2, BMul(x.m, y.m), x.e + y.e, FALSE)

\* x + y for finite non-zero x and y with 0 <= x.e - y.e <= 64, where
\* a * 2^y.e = |x|
FAddShifted(x, y, a) ==
    IF x.s = y.s THEN Round(x.s, BAdd(a, y.m), y.e, FALSE)
    ELSE IF a = y.m THEN Zero(0)
    ELSE IF BCmp(a, y.m) > 0 THEN Round(x.s, BSub(a, y.m), y.e, FALSE)
    ELSE Round(y.s, BSub(y.m, a), y.e, FALSE)

\* x + y for finite non-zero x and y with x.e >= y.e
FAddAligned(x, y) ==
    IF x.e - y.e <= 64 THEN FAddShifted(x, y, BShl(x.m, x.e - y.e))
    ELSE IF x.s = y.s THEN Round(x.s, BMulSmall(x.m, 4), x.e - 2, TRUE)
    ELSE Round(x.s, BSub(BMulSmall(x.m, 4), <<1>>), x.e - 2, TRUE)

\* x + y
FAdd(x, y) ==
    IF x.k = "nan" \/ y.k = "nan" THEN NaN
    ELSE IF x.k = "inf" THEN (IF y.k = "inf" /\ y.s # x.s THEN NaN ELSE x)
    ELSE IF y.k = "inf" THEN y
    ELSE IF IsZero(x) /\ IsZero(y) THEN Zero(IF x.s = 1 /\ y.s = 1 THEN 1 ELSE 0)
    ELSE IF IsZero(x) THEN y
    ELSE IF IsZero(y) THEN x
    ELSE IF x.e >= y.e THEN FAddAligned(x, y)
    ELSE FAddAligned(y, x)

\* x - y
FSub(x, y) == FAdd(x, FNeg(y))

\* x / y for y # 0 (Python raises ZeroDivisionError before dividing by zero)
FDiv(x, y) ==
    IF x.k = "nan" \/ y.k = "nan" THEN NaN
    ELSE IF x.k = "inf" THEN (IF y.k = "inf" THEN NaN ELSE Inf((x.s + y.s) % 2))
    ELSE IF y.k = "inf" THEN Zero((x.s + y.s) % 2)
    ELSE RoundQuot((x.s + y.s) % 2, x.m, y.m, x.e - y.e)

\* -1, 0, 1 as |x| < |y|, |x| = |y|, |x| > |y|, for x and y not NaN
MagCmp(x, y) ==
    IF x.k = "inf" \/ y.k = "inf"
    THEN (IF x.k = y.k THEN 0 ELSE IF x.k = "inf" THEN 1 ELSE -1)
    ELSE IF IsZero(x) \/ IsZero(y)
    THEN (IF IsZero(x) /\ IsZero(y) THEN 0 ELSE IF IsZero(x) THEN -1 ELSE 1)
    ELSE IF x.e # y.e THEN (IF x.e < y.e THEN -1 ELSE 1)
    ELSE BCmp(x.m, y.m)

SignOf(x) == IF IsZero(x) THEN 0 ELSE IF x.s = 1 THEN -1 ELSE 1

\* x < y
FLt(x, y) ==
    /\ x.k # "nan" /\ y.k # "nan"
    /\ IF SignOf(x) # SignOf(y) THEN SignOf(x) < SignOf(y)
       ELSE SignOf(x) * MagCmp(x, y) < 0

\* x == y
FEq(x, y) ==
    /\ x.k # "nan" /\ y.k # "nan"
    /\ SignOf(x) = SignOf(y)
    /\ MagCmp(x, y) = 0

\* x <= y
FLe(x, y) == FLt(x, y) \/ FEq(x, y)

\* max(x, 0): Python returns the int 0 when 0 > x and x itself otherwise
MaxZero(x) == IF IsNeg(x) THEN Zero(0) ELSE x

\* the float nearest to n / 100
FRound2From(s, n) ==
    IF Len(n) = 0 THEN Zero(s) ELSE RoundQuot(s, n, BFromNat(100), 0)

\* round(x, 2): the float nearest to the two-place decimal nearest to x
\* (ties of x to the even decimal)
FRound2(x) ==
    IF x.k # "fin" \/ IsZero(x) \/ x.e >= 0 THEN x
    ELSE FRound2From(x.s, BRoundShr(BMulSmall(x.m, 100), -x.e, FALSE))

\* Bounds lo * 2^e <= v <= hi * 2^e of a positive real v, kept to prec bits:
\* the lowest sh bits are dropped, lo rounded down and hi up
IMulTrim(lo, hi, e, sh) ==
    IF sh <= 0 THEN [lo |-> lo, hi |-> hi, e |-> e]
    ELSE [lo |-> BShr(lo, sh),
          hi |-> IF BLowBitsZero(hi, sh) THEN BShr(hi, sh) ELSE BAdd(BShr(hi, sh), <<1>>),
          e |-> e + sh]

IMulEnds(lo, hi, e, prec) == IMulTrim(lo, hi, e, BBitLen(hi) - prec)

IMulHigh(a, b, hi, prec) ==
    IMulEnds(IF a.lo = a.hi /\ b.lo = b.hi THEN hi ELSE BMul(a.lo, b.lo), hi, a.e + b.e, prec)

\* the product of the enclosures a and b
IMul(a, b, prec) == IMulHigh(a, b, BMul(a.hi, b.hi), prec)

\* the square of the enclosure h times, for odd n, the base a
IPowSquare(sq, a, n, prec) ==
    IF Len(sq.hi) = 0 \/ n % 2 = 0 THEN sq ELSE IMul(sq, a, prec)

\* a ** n from h = a ** (n \div 2)
IPowStep(h, a, n, prec) ==
    IF Len(h.hi) = 0 THEN h ELSE IPowSquare(IMul(h, h, prec), a, n, prec)

\* a ** n for n >= 1, by squaring
RECURSIVE IPow(_, _, _)
IPow(a, n, prec) ==
    IF n = 1 THEN a ELSE IPowStep(IPow(a, n \div 2, prec), a, n, prec)

PowPrecision == 128

\* a \div 2^sh for sh >= 1, or the next integer above a / 2^sh when up
BDirShr(a, sh, sticky, up) ==
    IF up /\ (sticky \/ ~BLowBitsZero(a, sh)) THEN BAdd(BShr(a, sh), <<1>>)
    ELSE BShr(a, sh)

RoundShiftDir(s, M, E, sticky, sh, up) ==
    RoundCarry(s,
               IF sh > 0 THEN BDirShr(M, sh, sticky, up)
               ELSE IF up /\ sticky THEN BAdd(BShl(M, -sh), <<1>>)
               ELSE BShl(M, -sh),
               E + sh)

\* The float next to (-1)^s * (M + f) * 2^E towards zero, or away from
\* zero when up; the value itself when it is a float.
RoundDir(s, M, E, sticky, up) ==
    IF Len(M) = 0 /\ ~sticky THEN Zero(s)
    ELSE RoundShiftDir(s, M, E, sticky, Larger(BBitLen(M) - MantBits, MinExp - E), up)

RoundQuotRemDir(s, qr, E, up) == RoundDir(s, qr.q, E, Len(qr.r) # 0, up)

\* The float next to (-1)^s * (2^E / D) towards zero, or away from zero
\* when up, for D > 0
RecipDir(s, D, E, up) ==
    RoundQuotRemDir(s, BDivMod(BShl(<<1>>, MantBits + 3 + BBitLen(D)), D),
                    E - (MantBits + 3 + BBitLen(D)), up)

\* The float next to the end of the enclosure i of |x| ** |n| (hi when
\* high, else lo), or to its reciprocal for n < 0 (where the reciprocal of
\* hi is the low end), towards zero or away from it
PowEnd(s, i, n, high, up) ==
    IF n > 0 THEN RoundDir(s, IF high THEN i.hi ELSE i.lo, i.e, FALSE, up)
    ELSE RecipDir(s, IF high THEN i.lo ELSE i.hi, -i.e, up)

\* both ends of the enclosure lie between the same two neighbouring floats
\* (an enclosure with lo # hi holds the power strictly inside)
PowSettled(s, i, n) ==
    \/ i.lo = i.hi
    \/ PowEnd(s, i, n, FALSE, FALSE) = PowEnd(s, i, n, TRUE, FALSE)
    \/ PowEnd(s, i, n, FALSE, TRUE) = PowEnd(s, i, n, TRUE, TRUE)

\* |x| ** n for finite x # 0 and an int n # 0.  Python hands ** to the C
\* library's pow, whose result is within one unit in the last place of the
\* exact power but not always the float nearest to it: the result is the
\* float below the exact power or the float above it (the power itself when
\* it is a float), and which of the two depends on the library.  PowRound
\* is the set of both; the working precision is doubled until the enclosure
\* lies between two neighbouring floats.
RECURSIVE PowRound(_, _, _, _)
PowRoundFrom(i, s, x, n, prec) ==
    IF PowSettled(s, i, n)
    THEN {PowEnd(s, i, n, FALSE, FALSE), PowEnd(s, i, n, TRUE, TRUE)}
    ELSE PowRound(s, x, n, 2 * prec)

PowRound(s, x, n, prec) ==
    PowRoundFrom(IPow([lo |-> x.m, hi |-> x.m, e |-> x.e], Abs(n), prec), s, x, n, prec)

\* Python raises OverflowError when the power is too large for a float
FPowResult(p) ==
    IF p.k = "inf" THEN [raised |-> "OverflowError", val |-> NaN]
    ELSE [raised |-> "none", val |-> p]

\* x ** n with the sign s of the result: the set of the outcomes
FPowSigned(x, n, s) ==
    IF n = 0 THEN {[raised |-> "none", val |-> FromInt(1)]}
    ELSE IF x.k = "nan" THEN {[raised |-> "none", val |-> NaN]}
    ELSE IF x.k = "inf"
         THEN {[raised |-> "none", val |-> IF n > 0 THEN Inf(s) ELSE Zero(s)]}
    ELSE IF IsZero(x)
         THEN (IF n < 0 THEN {[raised |-> "ZeroDivisionError", val |-> NaN]}
               ELSE {[raised |-> "none", val |-> Zero(s)]})
    ELSE {FPowResult(p) : p \in PowRound(s, x, n, PowPrecision)}

\* x ** n for a float x and an int n: the set of the outcomes the C library
\* allows, each a value or the exception Python raises (raised)
FPow(x, n) == FPowSigned(x, n, IF n % 2 = 1 THEN x.s ELSE 0)


\* ---------------------------------------------------------------------------
\* The function, line by line.

\* line 11: (down_payment_pct / 100) * property_value
DownPayment(pv, dp) == FMul(FromRatio(dp, 100), pv)

\* line 12
LoanAmount(pv, dp) == FSub(pv, DownPayment(pv, dp))

\* line 13: (interest_rate / 100) / 12
MonthlyInterestRate(rate) == FDiv(FDiv(rate, FromInt(100)), FromInt(12))

\* line 14
TenureMonths(ty) == ty * 12

\* line 16, the quotient: Python raises ZeroDivisionError for a zero
\* denominator
EmiQuotient(num, den) ==
    IF IsZero(den) THEN [raised |-> "ZeroDivisionError", val |-> NaN]
    ELSE [raised |-> "none", val |-> FDiv(num, den)]

\* line 16 after (1 + r) ** n, whose value or exception is p
EmiFromPower(loan, r, p) ==
    IF p.raised # "none" THEN [raised |-> p.raised, val |-> NaN]
    ELSE EmiQuotient(FMul(FMul(loan, r), p.val), FSub(p.val, FromInt(1)))

\* line 16: loan * r * (1 + r) ** n / ((1 + r) ** n - 1), evaluated from the
\* left; raised names the exception of ** or of the division by zero.  The
\* set holds one outcome for each value ** can have (the same value in the
\* numerator and in the denominator).
Emi(loan, r, n) == {EmiFromPower(loan, r, p) : p \in FPow(FAdd(FromInt(1), r), n)}

\* line 17: (rental_roi / 100) * property_value
AnnualRentalIncome(pv, roi) == FMul(FDiv(roi, FromInt(100)), pv)

\* line 18
MonthlyRent(annual) == FDiv(annual, FromInt(12))

\* Faulty variant of line 25: a horizon of three times the tenure.
WhileCondThreeTimes(out, m, tenure_months) == IsPos(out) /\ m < tenure_months * 3

\* line 25
WhileCond(out, m, tenure_months) == IsPos(out) /\ m < tenure_months * 2

\* line 27
Interest(out, r) == FMul(out, r)

\* Faulty variant of line 31: the difference taken the other way round.
SurplusReversed(rent, payment) == FSub(payment, rent)

\* line 31
Surplus(rent, payment) == FSub(rent, payment)

\* line 29
Principal(payment, interest) == FSub(payment, interest)

\* lines 32-33
AfterSurplus(out, surplus) == IF IsPos(surplus) THEN FSub(out, surplus) ELSE out

\* lines 29-34: the balance at the end of the month
NextOutstanding(out, payment, rent, r) ==
    MaxZero(AfterSurplus(FSub(out, Principal(payment, Interest(out, r))),
                         Surplus(rent, payment)))

\* Faulty variant of line 36: the snapshot taken a month late.
SnapshotDueMonthLate(m) == m % 12 = 1

\* line 36
SnapshotDue(m) == m % 12 = 0

\* lines 37-41
Snapshot(m, out, annual) ==
    [Year |-> m \div 12, Remaining_Balance |-> out, Annual_Rental_Yield |-> annual]

\* line 43: outstanding <= 0
BreakCond(out) == out.k # "nan" /\ ~IsPos(out)

\* Faulty variant of lines 46 and 49: whole years only (month // 12).
YearsTakenWhole(m) == FromInt(m \div 12)

\* lines 46 and 49: round(month / 12, 2)
YearsTaken(m) == FRound2(FromRatio(m, 12))

\* ---------------------------------------------------------------------------
\* The calls explored.

\* the default of the tenure field (line 205)
DefaultTenureYears == 25

\* the longest tenure entered in the form
MaxTenureYears == 30

\* What the form of lines 201-206 sends for its defaults and nearby entries:
\* the suggested price of its first segment and currency (12,100,000) and
\* the price 5,000,000, the slider's ends and default, rates 0, 4.0 (default)
\* and 4.5, and rental yields 0, 6.0, 7.75 and 9.0 (7.75 and 9 are the
\* defaults of the second and the first segment, lines 70-71).
FormInputs ==
    [pv   : {FromInt(5000000), FromInt(12100000)},
     dp   : {0, 25, 100},
     rate : {FromInt(0), FromInt(4), FromRatio(45, 10)},
     ty   : {1, DefaultTenureYears, MaxTenureYears},
     roi  : {FromInt(0), FromInt(6), FromRatio(775, 100), FromInt(9)}]

\* Entries the number fields accept although they make no sense, and down
\* payments only a direct call can pass.
OutOfRangeInputs ==
    [pv   : {FromInt(-16380), FromInt(0), FromInt(16380)},
     dp   : {-25, 25, 125},
     rate : {FromInt(-1200), FromInt(-4), FromInt(4)},
     ty   : {-1, 0, 1},
     roi  : {FromInt(-6), FromInt(6)}]

\* 1e-9 / 1e6 percent: a positive rate so small that 1 + rate / 100 / 12 == 1
TinyRate == FDiv(FromRatio(1, 1000000000), FromInt(1000000))

Call(pv, dp, rate, ty, roi) == [pv |-> pv, dp |-> dp, rate |-> rate, ty |-> ty, roi |-> roi]

\* Calls within the preconditions on which single roundings decide the
\* outcome: (1 + r) ** n so large that subtracting 1 changes nothing or
\* little, a payment one unit in the last place below the first interest,
\* a power beyond the float range, a rate lost in 1 + r, rents and payments
\* that end in half a hundredth, powers on which C libraries differ.
EdgeInputs ==
    {Call(FromInt(16380), 0, FromInt(1200), 5, FromInt(6)),
     Call(FromInt(16380), 0, FromInt(1200), 2, FromInt(0)),
     Call(FromInt(16380), 0, FromInt(1200), 3, FromInt(0)),
     Call(FromInt(100000), 10, FromInt(2794), 3, FromInt(0)),
     Call(FromInt(100000), 0, FromInt(100), 12, FromInt(0)),
     Call(FromInt(100), 0, FromInt(3840), 42, FromInt(0)),
     Call(FromInt(5000000), 100, TinyRate, MaxTenureYears, FromInt(6)),
     Call(FromInt(5000000), 25, TinyRate, 1, FromInt(6)),
     Call(FromInt(1003), 0, FromInt(4), 1, FromInt(6)),
     Call(FromInt(3), 0, FromInt(4), 1, FromInt(6)),
     Call(FromInt(100000), 0, FromInt(1), 1, FromInt(0)),
     Call(FromInt(100000), 0, FromInt(2), 1, FromInt(0)),
     Call(FromInt(5000000), 25, FromRatio(775, 100), 2, FromRatio(775, 100)),
     Call(FromInt(12100000), 30, FromRatio(209, 10), DefaultTenureYears, FromInt(9)),
     Call(FromInt(2000000), 30, FromRatio(209, 10), DefaultTenureYears, FromInt(0)),
     Call(FromInt(5000000), 25, FromRatio(145, 10), 9, FromInt(6))}

Inputs == FormInputs \cup OutOfRangeInputs \cup EdgeInputs

\* ---------------------------------------------------------------------------
\* The call as a state machine: pc is the position in the function.

\* line 10: the call, with the locals not yet assigned
Init ==
    /\ \E in \in Inputs :
          /\ property_value = in.pv
          /\ down_payment_pct = in.dp
          /\ interest_rate = in.rate
          /\ tenure_years = in.ty
          /\ rental_roi = in.roi
    /\ loan_amount = Zero(0)
    /\ monthly_interest_rate = Zero(0)
    /\ emi = Zero(0)
    /\ annual_rental_income = Zero(0)
    /\ monthly_rent = Zero(0)
    /\ outstanding = Zero(0)
    /\ month = 0
    /\ total_interest = Zero(0)
    /\ schedule = << >>
    /\ pc = "setup"
    /\ outcome = "running"
    /\ result = << >>

args == <<property_value, down_payment_pct, interest_rate, tenure_years, rental_roi>>

\* line 16 raises nothing: emi is assigned
PaymentComputed(e) == e.raised = "none" /\ emi' = e.val

\* line 16 raises: the call ends with the exception
PaymentRaises(e) == e.raised # "none" /\ outcome' = e.raised

\* lines 11-23, when line 16 raises nothing
Setup ==
    /\ pc = "setup"
    /\ loan_amount' = LoanAmount(property_value, down_payment_pct)
    /\ monthly_interest_rate' = MonthlyInterestRate(interest_rate)
    /\ \E e \in Emi(loan_amount', monthly_interest_rate', TenureMonths(tenure_years)) :
          PaymentComputed(e)
    /\ annual_rental_income' = AnnualRentalIncome(property_value, rental_roi)
    /\ monthly_rent' = MonthlyRent(annual_rental_income')
    /\ outstanding' = loan_amount'
    /\ month' = 0
    /\ total_interest' = Zero(0)
    /\ schedule' = << >>
    /\ pc' = "while"
    /\ UNCHANGED <<args, outcome, result>>

\* lines 11-16, when line 16 raises: ZeroDivisionError from the division or
\* from 0.0 ** negative, OverflowError from **
SetupRaises ==
    /\ pc = "setup"
    /\ loan_amount' = LoanAmount(property_value, down_payment_pct)
    /\ monthly_interest_rate' = MonthlyInterestRate(interest_rate)
    /\ \E e \in Emi(loan_amount', monthly_interest_rate', TenureMonths(tenure_years)) :
          PaymentRaises(e)
    /\ pc' = "done"
    /\ UNCHANGED <<args, emi, annual_rental_income, monthly_rent, outstanding, month,
                   total_interest, schedule, result>>

\* lines 25-44: one iteration of the loop
LoopBody ==
    /\ pc = "while"
    /\ WhileCond(outstanding, month, TenureMonths(tenure_years))
    /\ month' = month + 1
    /\ total_interest' = FAdd(total_interest, Interest(outstanding, monthly_interest_rate))
    /\ outstanding' = NextOutstanding(outstanding, emi, monthly_rent, monthly_interest_rate)
    /\ schedule' = IF SnapshotDue(month')
                   THEN Append(schedule, Snapshot(month', outstanding', annual_rental_income))
                   ELSE schedule
    /\ pc' = IF BreakCond(outstanding') THEN "return" ELSE "while"
    /\ UNCHANGED <<args, loan_amount, monthly_interest_rate, emi, annual_rental_income,
                   monthly_rent, outcome, result>>

\* line 25, when the condition is false
LoopExit ==
    /\ pc = "while"
    /\ ~WhileCond(outstanding, month, TenureMonths(tenure_years))
    /\ pc' = "return"
    /\ UNCHANGED <<args, loan_amount, monthly_interest_rate, emi, annual_rental_income,
                   monthly_rent, outstanding, month, total_interest, schedule, outcome, result>>

\* lines 46-49
Return ==
    /\ pc = "return"
    /\ result' = <<loan_amount, FRound2(emi), FRound2(monthly_rent), YearsTaken(month),
                   annual_rental_income, total_interest, schedule>>
    /\ outcome' = "returned"
    /\ pc' = "done"
    /\ UNCHANGED <<args, loan_amount, monthly_interest_rate, emi, annual_rental_income,
                   monthly_rent, outstanding, month, total_interest, schedule>>

Next == Setup \/ SetupRaises \/ LoopBody \/ LoopExit \/ Return

Spec == Init /\ [][Next]_vars


----------------------------------------------------------------------------
(* The preconditions the specification states for a call. *)

ValidInput ==
    /\ IsPos(property_value)
    /\ down_payment_pct >= 0 /\ down_payment_pct <= 100
    /\ FLe(FromInt(0), interest_rate)
    /\ FLe(FromInt(0), rental_roi)
    /\ tenure_years >= 1

Returned == pc = "done" /\ outcome = "returned"

Raised == outcome \in {"ZeroDivisionError", "OverflowError"}

FAbs(x) == [x EXCEPT !.s = 0]

----------------------------------------------------------------------------
\* C1: for every valid call with interest_rate = 0 the function returns
\* normally, and the payment it uses and reports is loan_amount divided by
\* tenure_months.
ZeroRatePaysLoanOverTenure ==
    (ValidInput /\ IsZero(interest_rate) /\ pc = "done") =>
        /\ outcome = "returned"
        /\ FEq(emi, FDiv(loan_amount, FromInt(tenure_years * 12)))
        /\ FEq(result[2], emi)

\* C2: a call that violates a precondition is rejected as InvalidInput before
\* the loop runs an iteration, and returns no schedule and no summary.
InvalidInputIsRejected ==
    ~ValidInput =>
        /\ month = 0
        /\ schedule = << >>
        /\ result = << >>
        /\ (pc = "done" => outcome = "InvalidInput")

\* C3: a valid call whose loop ends because month reached 2 * tenure_months
\* with the balance still positive is reported as HorizonExhausted, never as
\* an ordinary return.
HorizonExhaustedIsReported ==
    (ValidInput /\ pc = "done" /\ month >= tenure_years * 12 * 2 /\ IsPos(outstanding)) =>
        outcome = "HorizonExhausted"

\* C4: for every valid call with down_payment_pct = 100 and a positive rate,
\* loan_amount and emi are 0, the loop runs no iteration, and the call returns
\* 0 years, 0 total interest and an empty schedule.
FullDownPaymentClearsAtOnce ==
    (ValidInput /\ down_payment_pct = 100 /\ IsPos(interest_rate)) =>
        /\ ~Raised
        /\ month = 0
        /\ IsZero(total_interest)
        /\ schedule = << >>
        /\ (pc # "setup" => IsZero(loan_amount) /\ IsZero(emi) /\ IsZero(outstanding))
        /\ (pc = "done" =>
               /\ outcome = "returned"
               /\ IsZero(result[1]) /\ IsZero(result[2]) /\ IsZero(result[4])
               /\ IsZero(result[6]) /\ result[7] = << >>)

\* C5: for every valid call the balance after each iteration is at most the
\* balance before it (so at most loan_amount after the first) and is never
\* negative, with a positive surplus and without one.
BalanceNeverRises ==
    /\ []((ValidInput /\ pc # "setup" /\ ~Raised) =>
              (FLe(FromInt(0), outstanding) /\ FLe(outstanding, loan_amount)))
    /\ [][(ValidInput /\ month' = month + 1) =>
              (FLe(outstanding', outstanding) /\ FLe(FromInt(0), outstanding'))]_vars

\* C6: for a valid call with a loan and with monthly_rent <= emi the schedule
\* is the ordinary one: the loop ends at tenure_months or at most one month
\* from it, and the years returned differ from tenure_years by at most 0.1.
OrdinaryScheduleClearsAtTenure ==
    (ValidInput /\ IsPos(loan_amount) /\ Returned /\ FLe(monthly_rent, emi)) =>
        /\ Abs(month - tenure_years * 12) <= 1
        /\ FLe(FAbs(FSub(result[4], FromInt(tenure_years))), FromRatio(1, 10))

----------------------------------------------------------------------------
\* C7: the loop stops in the first month that ends with a balance of 0 or
\* less, on a year boundary or not: while the loop is still running the
\* balance is positive, month never advances once the balance is 0, and the
\* years returned are that month divided by 12 (to the 2 places of the
\* return statement), which need not be a whole number.
StopsAtFirstClearedMonth ==
    /\ []((pc = "while" /\ month > 0) => IsPos(outstanding))
    /\ [](Returned =>
              FLe(FAbs(FSub(FMul(FromInt(12), result[4]), FromInt(month))),
                  FromRatio(7, 100)))
    /\ [][(pc # "setup" /\ ~IsPos(outstanding)) => month' = month]_vars

ClearedInMidYear ==
    /\ Returned
    /\ IsZero(outstanding)
    /\ month > 12
    /\ month % 12 # 0
    /\ FLt(FromInt(month \div 12), result[4])
    /\ FLt(result[4], FromInt(month \div 12 + 1))

\* C8: the call (5000000, 25, 4, 25, 6) has loan_amount 3,750,000 and
\* monthly_rent 25,000; its surplus, about 5,206, is positive and is taken off
\* the balance in every iteration; the loan clears, by the balance reaching 0
\* and before the horizon, in 17 to 19 years and in less than 25.
ReferenceCall ==
    args = <<FromInt(5000000), 25, FromInt(4), 25, FromInt(6)>>

ReferenceScenario ==
    /\ []((ReferenceCall /\ pc # "setup") =>
              /\ FEq(loan_amount, FromInt(3750000))
              /\ FEq(monthly_rent, FromInt(25000))
              /\ FLe(FromInt(5206), FSub(monthly_rent, emi))
              /\ FLt(FSub(monthly_rent, emi), FromInt(5207)))
    /\ []((ReferenceCall /\ pc = "done") =>
              /\ outcome = "returned"
              /\ IsZero(outstanding)
              /\ month < tenure_years * 12 * 2
              /\ FEq(result[1], FromInt(3750000))
              /\ FEq(result[3], FromInt(25000))
              /\ FLe(FromInt(17), result[4]) /\ FLe(result[4], FromInt(19))
              /\ FLt(result[4], FromInt(25)))
    /\ [][(ReferenceCall /\ month' = month + 1) =>
              outstanding' =
                  MaxZero(FSub(FSub(outstanding,
                                    FSub(emi, FMul(outstanding, monthly_interest_rate))),
                               FSub(monthly_rent, emi)))]_vars

ReferenceCallReturned == ReferenceCall /\ Returned /\ month > 0

\* C9: a snapshot is appended in exactly the months that are multiples of 12:
\* after M months the schedule has M \div 12 entries, with Year 1, 2, ... in
\* order, each holding the clamped balance at the end of month 12 * Year and
\* the same Annual Rental Yield; a final partial year has no snapshot, so a
\* snapshot with balance 0 is the last one and M is then 12 * its Year.
SnapshotsOnYearBoundaries ==
    /\ [](/\ Len(schedule) = month \div 12
          /\ \A i \in 1..Len(schedule) :
                /\ schedule[i].Year = i
                /\ schedule[i].Annual_Rental_Yield = annual_rental_income
                /\ FLe(FromInt(0), schedule[i].Remaining_Balance)
                /\ (IsZero(schedule[i].Remaining_Balance) =>
                        (i = Len(schedule) /\ month = 12 * i)))
    /\ [][IF month' = month + 1 /\ month' % 12 = 0
          THEN schedule' = Append(schedule,
                                  [Year |-> month' \div 12,
                                   Remaining_Balance |-> outstanding',
                                   Annual_Rental_Yield |-> annual_rental_income])
          ELSE schedule' = schedule]_vars

PartialLastYearHasNoSnapshot ==
    /\ Returned
    /\ IsZero(outstanding)
    /\ month % 12 # 0
    /\ Len(schedule) >= 2
    /\ IsPos(schedule[Len(schedule)].Remaining_Balance)

\* C10: for every call with tenure_years >= 1 whose payment can be computed,
\* the loop runs at most 2 * tenure_months iterations whether or not the
\* balance reaches 0: month never exceeds 2 * tenure_years * 12, the years
\* returned are at most 2 * tenure_years and the schedule has at most
\* 2 * tenure_years entries.
LoopBoundedByTwiceTenure ==
    (tenure_years >= 1 /\ ~Raised) =>
        /\ month <= 2 * tenure_years * 12
        /\ Len(schedule) <= 2 * tenure_years
        /\ (Returned => FLe(result[4], FromInt(2 * tenure_years)))

HorizonReached ==
    /\ Returned
    /\ tenure_years >= 1
    /\ month = 2 * tenure_years * 12
    /\ IsPos(outstanding)
    /\ Len(schedule) = 2 * tenure_years
    /\ FEq(result[4], FromInt(2 * tenure_years))

====
